---- MODULE Spec2Model ----
(***************************************************************************)
(* A model of dysh's rule-based row selection, src/dysh/util/selection.py  *)
(* (class Selection) with util/core.py (generate_tag).                      *)
(*                                                                          *)
(* A pandas DataFrame is a sequence of entries [i |-> index label,          *)
(* r |-> row], a row being a record of cells, one per column.  An astropy   *)
(* Table (the bookkeeping table _table) is a sequence of rows.  A python    *)
(* dict (_selection_rules, the criteria row) is a sequence of pairs in      *)
(* insertion order.                                                         *)
(*                                                                          *)
(* With it: spectra/scan.py (PSScan and ScanBlock: calibrate, timeaverage,  *)
(* polaverage) and consecutive of util/core.py.                             *)
(***************************************************************************)
EXTENDS Integers, Sequences, FiniteSets, TLC

VARIABLES
    index,              \* the metadata table: the DataFrame the Selection is
    _table,             \* bookkeeping table: one row per stored rule
    _selection_rules,   \* dict id -> DataFrame, in insertion order
    _aliases,           \* dict ALIAS -> COLUMN
    call,               \* the last call made: operation and arguments
    err,                \* how the last call ended
    errkeys,            \* the keys the last call's error message lists
    handed_out,         \* history: the highest ID a stored rule ever got, -1 before the first
    pprint_exclude_names, \* _table.pprint_exclude_names: the columns print leaves out
    scans,              \* ScanBlock.data: the PSScan objects of a block, in order
    block,              \* the lists _timeaveraged and _polaveraged of the ScanBlock
    returned            \* what the last call on a scan, a block or consecutive returned

vars == <<index, _table, _selection_rules, _aliases, call, err, errkeys, handed_out,
          pprint_exclude_names, scans, block, returned>>

-----------------------------------------------------------------------------
(* How a call ends: "ok", the warning of an empty selection, or the         *)
(* exception raised, by type and message.                                   *)

NoData         == "UserWarning: Your selection rule resulted in no data being selected. Ignoring."
UnknownKey     == "KeyError: The following keywords were not recognized"
UnknownColumn  == "KeyError: is not a recognized column name"
NoSuchId       == "KeyError: No ID found in this Selection"
NoMatches      == "KeyError: No matches found for key"
DuplicateRule  == "Exception: A rule that results in an identical has already been added"
OnlyOne        == "Exception: You can only specify one of id or tag"
EitherOne      == "Exception: You must specify either id or tag"
BadRange       == "Exception: Couldn't parse value tuple as a range"
NotARange      == "ValueError: Invalid input for key. Range inputs must be tuple or list"
NotNumeric     == "ValueError: Expected numeric value for these keywords but did not get a number"
BadVals        == "ValueError: Keys in vals must all be valid column names"
BadQuery       == "ValueError: expr must be a string to be evaluated"
MalformedAngle == "ValueError: cannot parse the angle"
AngleOfNone    == "TypeError: an angle of None"
BadCompare     == "TypeError: '<=' not supported between instances of 'str' and 'int'"
NoSuchColumn   == "KeyError: the frame has no such column"
OutOfBounds    == "IndexError: index out of bounds"
BadOperand     == "TypeError: unsupported operand type(s)"
NotIterable    == "TypeError: 'numpy.int32' object is not iterable"

-----------------------------------------------------------------------------
(* Python values.  k is the type: "num" an int, "float" a float of integral *)
(* value n, "str", "none", "list", "tuple", "qty" an astropy Quantity of n  *)
(* degrees.                                                                  *)

Val(k, n, s, xs) == [k |-> k, n |-> n, s |-> s, xs |-> xs]
Num(n)    == Val("num", n, "", <<>>)
Flt(n)    == Val("float", n, "", <<>>)
Str(s)    == Val("str", 0, s, <<>>)
None      == Val("none", 0, "", <<>>)
List(xs)  == Val("list", 0, "", xs)
Tuple(xs) == Val("tuple", 0, "", xs)
Qty(n)    == Val("qty", n, "", <<>>)

\* isinstance(v, numbers.Number)
IsNumber(v) == v.k \in {"num", "float"}

\* isinstance(v, (tuple, list, np.ndarray)); also collections.abc.Sequence and not str
IsSequence(v) == v.k \in {"list", "tuple"}

\* str(v) of a scalar, and repr(v) as str() of a container shows its elements
StrScalar(v) ==
    CASE v.k = "num"   -> ToString(v.n)
      [] v.k = "float" -> ToString(v.n) \o ".0"
      [] v.k = "str"   -> v.s
      [] v.k = "none"  -> "None"
      [] v.k = "qty"   -> ToString(v.n) \o ".0 deg"
      [] OTHER         -> "?"

ReprScalar(v) ==
    CASE v.k = "str" -> "'" \o v.s \o "'"
      [] v.k = "qty" -> "<Quantity " \o ToString(v.n) \o ".0 deg>"
      [] OTHER       -> StrScalar(v)

RECURSIVE JoinRepr(_)
JoinRepr(xs) ==
    IF xs = <<>> THEN ""
    ELSE IF Len(xs) = 1 THEN ReprScalar(xs[1])
    ELSE ReprScalar(xs[1]) \o ", " \o JoinRepr(Tail(xs))

\* python's str()
PyStr(v) ==
    CASE v.k = "list"  -> "[" \o JoinRepr(v.xs) \o "]"
      [] v.k = "tuple" -> IF Len(v.xs) = 1 THEN "(" \o ReprScalar(v.xs[1]) \o ",)"
                          ELSE "(" \o JoinRepr(v.xs) \o ")"
      [] OTHER         -> StrScalar(v)

-----------------------------------------------------------------------------
(* The metadata table                                                       *)

\* the columns of sdfits._index that the model carries
Columns == {"SCAN", "IFNUM", "PLNUM", "OBJECT", "CRVAL1", "CRVAL2", "CRVAL3",
            "ELEVATIO", "BINTABLE"}

MkRow(scan, ifnum, object, crval2) ==
    [SCAN |-> Num(scan), IFNUM |-> Num(ifnum), PLNUM |-> Num(0),
     OBJECT |-> Str(object), CRVAL1 |-> Flt(1420), CRVAL2 |-> Flt(crval2),
     CRVAL3 |-> Flt(0), ELEVATIO |-> Flt(45), BINTABLE |-> Num(0)]

\* DataFrame(rows): a frame over a fresh RangeIndex
RangeFrame(rows) == [j \in 1..Len(rows) |-> [i |-> j - 1, r |-> rows[j]]]

\* the rows of a frame, without its index
Rows(df) == [j \in 1..Len(df) |-> df[j].r]

-----------------------------------------------------------------------------
(* pandas operations                                                        *)

\* the rows of `right` equal in every column to row r, in right's order
RECURSIVE Matches(_, _)
Matches(r, right) ==
    IF right = <<>> THEN <<>>
    ELSE (IF Head(right).r = r THEN <<r>> ELSE <<>>) \o Matches(r, Tail(right))

RECURSIVE MergeRows(_, _)
MergeRows(left, right) ==
    IF left = <<>> THEN <<>>
    ELSE Matches(Head(left).r, right) \o MergeRows(Tail(left), right)

\* pd.merge(left, right, how="inner") of two frames with the same columns:
\* the join is on every column, one output row per pair of equal rows, in
\* the order of the left frame, over a fresh RangeIndex
merge(left, right) == RangeFrame(MergeRows(left, right))

\* df[ku] == v for a scalar v, on one cell
CellEq(c, v) ==
    \/ IsNumber(c) /\ IsNumber(v) /\ c.n = v.n
    \/ c.k = "str" /\ v.k = "str" /\ c.s = v.s

\* df[df[ku] == v]: the entries with that cell, each keeping its index label
WhereEq(df, ku, v) == SelectSeq(df, LAMBDA e : CellEq(e.r[ku], v))

\* s.equals(df): same index labels and same cells, in the same order
equals(s, df) == s = df

-----------------------------------------------------------------------------
(* Keys and aliases                                                         *)

default_aliases ==
    [a \in {"FREQ", "RA", "DEC", "GLON", "GLAT", "GALLON", "GALLAT",
            "ELEVATION", "SOURCE", "POL"} |->
        CASE a = "FREQ" -> "CRVAL1"
          [] a \in {"RA", "GLON", "GALLON"} -> "CRVAL2"
          [] a \in {"DEC", "GLAT", "GALLAT"} -> "CRVAL3"
          [] a = "ELEVATION" -> "ELEVATIO"
          [] a = "SOURCE" -> "OBJECT"
          [] OTHER -> "PLNUM"]

_valid_coordinates == {"RA", "DEC", "GALLON", "GALLAT", "GLON", "GLAT", "CRVAL2", "CRVAL3"}

\* str.upper() on the spellings the calls use; any other key is upper case already
upper(k) ==
    CASE k = "scan"     -> "SCAN"
      [] k = "Scan"     -> "SCAN"
      [] k = "ifnum"    -> "IFNUM"
      [] k = "object"   -> "OBJECT"
      [] k = "bintable" -> "BINTABLE"
      [] k = "crval2"   -> "CRVAL2"
      [] k = "ra"       -> "RA"
      [] k = "Ra"       -> "RA"
      [] k = "source"   -> "SOURCE"
      [] k = "pol"      -> "POL"
      [] k = "plnum"    -> "PLNUM"
      [] k = "lon"      -> "LON"
      [] k = "lat"      -> "LAT"
      [] k = "foo"      -> "FOO"
      [] k = "bar"      -> "BAR"
      [] OTHER          -> k

\* k in self: the key is a column label of the DataFrame
InSelf(k) == k \in Columns

\* the keys of kwargs, in call order
RECURSIVE KeysOf(_)
KeysOf(kw) == IF kw = <<>> THEN <<>> ELSE <<Head(kw)[1]>> \o KeysOf(Tail(kw))

\* _check_keys stopping at the first key that is neither a column nor an alias
unrecognized_first_only(keys) ==
    LET all == SelectSeq([j \in 1..Len(keys) |-> upper(keys[j])],
                         LAMBDA k: ~InSelf(k) /\ k \notin DOMAIN _aliases)
    IN  IF all = <<>> THEN <<>> ELSE <<all[1]>>

\* _check_keys: the upper-cased keys that are neither a column nor an alias
unrecognized(keys) ==
    SelectSeq([j \in 1..Len(keys) |-> upper(keys[j])],
              LAMBDA k: ~InSelf(k) /\ k \notin DOMAIN _aliases)

_check_keys(keys) == IF Len(unrecognized(keys)) > 0 THEN UnknownKey ELSE "ok"

\* the columns of alias(**aliases), in call order: aliases.values()
ValuesOf(kw) == [j \in 1..Len(kw) |-> kw[j][2].s]

\* _alias in a loop over the items: self._aliases[key.upper()] = column.upper()
RECURSIVE alias_loop(_, _)
alias_loop(kw, al) ==
    IF kw = <<>> THEN al
    ELSE alias_loop(Tail(kw),
                    [a \in DOMAIN al \cup {upper(Head(kw)[1])} |->
                        IF a = upper(Head(kw)[1]) THEN upper(Head(kw)[2].s) ELSE al[a]])

\* alias: the columns are checked as keys are, then every pair is registered
do_alias(kw) ==
    IF _check_keys(ValuesOf(kw)) # "ok"
    THEN [err |-> _check_keys(ValuesOf(kw)), keys |-> unrecognized(ValuesOf(kw)),
          aliases |-> _aliases]
    ELSE [err |-> "ok", keys |-> <<>>, aliases |-> alias_loop(kw, _aliases)]

-----------------------------------------------------------------------------
(* The value sanitizer                                                      *)

Ok(v)     == [err |-> "ok", v |-> v]
Raise(e)  == [err |-> e, v |-> None]

\* astropy's Angle(str): the angle strings the calls use, in degrees
AngleStrings == {"10d", "20d"}
ParseAngle(s) == IF s = "10d" THEN 10 ELSE 20

\* Angle(value * u.degree).degree for a number, Angle(value).degree otherwise
AngleDegree(v) ==
    CASE IsNumber(v)  -> Ok(Flt(v.n))
      [] v.k = "qty"  -> Ok(Flt(v.n))
      [] v.k = "str"  -> IF v.s \in AngleStrings THEN Ok(Flt(ParseAngle(v.s)))
                         ELSE Raise(MalformedAngle)
      [] OTHER        -> Raise(AngleOfNone)

\* the first error among the sanitized elements, or "ok"
RECURSIVE FirstErr(_)
FirstErr(rs) ==
    IF rs = <<>> THEN "ok"
    ELSE IF Head(rs).err # "ok" THEN Head(rs).err ELSE FirstErr(Tail(rs))

_sanitize_coordinates(key, value) ==
    IF key \notin _valid_coordinates /\ key \notin DOMAIN _aliases
    THEN Ok(value)
    ELSE IF IsSequence(value)
    THEN LET rs == [j \in 1..Len(value.xs) |-> AngleDegree(value.xs[j])]
         IN  IF FirstErr(rs) # "ok" THEN Raise(FirstErr(rs))
             ELSE Ok(List([j \in 1..Len(rs) |-> rs[j].v]))
    ELSE AngleDegree(value)

_sanitize_input(key0, value) ==
    LET key == IF key0 \in DOMAIN _aliases THEN _aliases[key0] ELSE key0
    IN  IF ~InSelf(key) THEN Raise(UnknownColumn)
        ELSE _sanitize_coordinates(key, value)

-----------------------------------------------------------------------------
(* The rule store                                                           *)

\* the key columns of the bookkeeping table: the columns of the index but BINTABLE
DEFKEYS == Columns \ {"BINTABLE"}

hashlen == 9

\* tag=None
NoTag == "<None>"

\* "".join(map(str, values)) of the values of a dict
RECURSIVE JoinValues(_)
JoinValues(row) == IF row = <<>> THEN "" ELSE Head(row)[2] \o JoinValues(Tail(row))

\* generate_tag hashing the name of the first column with the values
generate_tag_with_name(row) ==
    "sha256:" \o (IF row = <<>> THEN "" ELSE Head(row)[1]) \o JoinValues(row)

\* generate_tag: the first hashlen hex digits of the SHA256 of the joined
\* values; the digest is kept symbolic, as a function of the data hashed
generate_tag(row) == "sha256:" \o JoinValues(row)

\* row[ku] = s on a dict kept as pairs in insertion order
RECURSIVE DictPut(_, _, _)
DictPut(d, k, x) ==
    IF d = <<>> THEN <<<<k, x>>>>
    ELSE IF Head(d)[1] = k THEN <<<<k, x>>>> \o Tail(d)
    ELSE <<Head(d)>> \o DictPut(Tail(d), k, x)

DictKeys(d) == {d[j][1] : j \in 1..Len(d)}

DictGet(d, k) == d[CHOOSE j \in 1..Len(d) : d[j][1] = k][2]

\* del d[k]
DictDel(d, k) == SelectSeq(d, LAMBDA e: e[1] # k)

TableIds == {_table[j].ID : j \in 1..Len(_table)}

RECURSIVE SeqMax(_)
SeqMax(xs) == IF Len(xs) = 1 THEN xs[1]
              ELSE LET m == SeqMax(Tail(xs)) IN IF xs[1] > m THEN xs[1] ELSE m

\* _next_id as the number of rows instead of the highest ID plus one
_next_id_by_count == Len(_table)

\* _next_id counting from one: the highest ID plus one, 1 for an empty table
_next_id_from_one ==
    IF Len(_table) = 0 THEN 1
    ELSE SeqMax([j \in 1..Len(_table) |-> _table[j].ID]) + 1

\* _next_id as the highest ID, without the one added to it
_next_id_highest ==
    IF Len(_table) = 0 THEN 0
    ELSE SeqMax([j \in 1..Len(_table) |-> _table[j].ID])

_next_id ==
    IF Len(_table) = 0 THEN 0
    ELSE SeqMax([j \in 1..Len(_table) |-> _table[j].ID]) + 1

\* the rules of _selection_rules, in order, whose frame equals df
DuplicatesOf(df) == SelectSeq(_selection_rules, LAMBDA e: equals(e[2], df))

\* _check_for_duplicates: the first equal frame raises; composing the message
\* reads the rule's TAG from the bookkeeping table by its ID
_check_for_duplicates(df) ==
    IF DuplicatesOf(df) = <<>> THEN "ok"
    ELSE IF Head(DuplicatesOf(df))[1] \in TableIds THEN DuplicateRule
    ELSE NoMatches

\* what a builder or remove returns to the action: how it ended, the keys its
\* message lists, and the store after it
Outcome(e, t, sr) == [err |-> e, keys |-> <<>>, table |-> t, rules |-> sr]
Failed(e, keys)   == [err |-> e, keys |-> keys, table |-> _table, rules |-> _selection_rules]

\* Table.add_row(row): a key that is no column of the table raises; a column
\* without a value gets the zero of its dtype, the empty string
BookRow(row) ==
    [ID |-> DictGet(row, "ID"), TAG |-> DictGet(row, "TAG"),
     SELECTED |-> DictGet(row, "# SELECTED"),
     crit |-> [c \in DEFKEYS |-> IF c \in DictKeys(row) THEN DictGet(row, c) ELSE ""]]

\* _addrow generating the tag from the row after ID and # SELECTED are in it
_addrow_tag_of_whole_row(row0, dataframe, tag) ==
    IF _check_for_duplicates(dataframe) # "ok"
    THEN Outcome(_check_for_duplicates(dataframe), _table, _selection_rules)
    ELSE LET rowa == DictPut(row0, "ID", ToString(_next_id))
             rowb == DictPut(rowa, "# SELECTED", ToString(Len(dataframe)))
             row1 == DictPut(row0, "TAG", IF tag # NoTag THEN tag ELSE generate_tag(rowb))
             row2 == DictPut(row1, "ID", _next_id)
             row  == DictPut(row2, "# SELECTED", Len(dataframe))
             sr   == DictPut(_selection_rules, _next_id, dataframe)
         IN  IF DictKeys(row) \subseteq DEFKEYS \cup {"ID", "TAG", "# SELECTED"}
             THEN Outcome("ok", Append(_table, BookRow(row)), sr)
             ELSE Outcome(BadVals, _table, sr)

_addrow(row0, dataframe, tag) ==
    IF _check_for_duplicates(dataframe) # "ok"
    THEN Outcome(_check_for_duplicates(dataframe), _table, _selection_rules)
    ELSE LET row1 == DictPut(row0, "TAG", IF tag # NoTag THEN tag ELSE generate_tag(row0))
             row2 == DictPut(row1, "ID", _next_id)
             row  == DictPut(row2, "# SELECTED", Len(dataframe))
             sr   == DictPut(_selection_rules, _next_id, dataframe)
         IN  IF DictKeys(row) \subseteq DEFKEYS \cup {"ID", "TAG", "# SELECTED"}
             THEN Outcome("ok", Append(_table, BookRow(row)), sr)
             ELSE Outcome(BadVals, _table, sr)

-----------------------------------------------------------------------------
(* select                                                                   *)

Loop(e, df, row) == [err |-> e, df |-> df, row |-> row]

\* the key as select and select_range resolve it
Resolve(k) == IF upper(k) \in DOMAIN _aliases THEN _aliases[upper(k)] ELSE upper(k)

\* the query with its terms joined by "and": the rows equal to every element
query_all(df, ku, xs) ==
    SelectSeq(df, LAMBDA e : \A j \in 1..Len(xs) : CellEq(e.r[ku], xs[j]))

\* df.query of "KU == v1| KU == v2 ...": the rows equal to any element
query_any(df, ku, xs) ==
    SelectSeq(df, LAMBDA e : \E j \in 1..Len(xs) : CellEq(e.r[ku], xs[j]))

RECURSIVE select_loop(_, _, _)
select_loop(kw, df, row) ==
    IF kw = <<>> THEN Loop("ok", df, row)
    ELSE LET ku == Resolve(Head(kw)[1])
             sv == _sanitize_input(ku, Head(kw)[2])
             v  == sv.v
         IN  IF sv.err # "ok" THEN Loop(sv.err, df, row)
             ELSE IF ~InSelf(ku) THEN Loop(NoSuchColumn, df, row)
             ELSE IF IsSequence(v)
             THEN IF v.xs = <<>> THEN Loop(BadQuery, df, row)
                  ELSE select_loop(Tail(kw), query_any(df, ku, v.xs),
                                   DictPut(row, ku, PyStr(v)))
             ELSE select_loop(Tail(kw),
                              merge(df, WhereEq(df, ku, v)),
                              DictPut(row, ku, PyStr(v)))

\* the end of a builder without the check for an empty frame
Conclude_storing_empty(l, tag) ==
    IF l.err # "ok" THEN Failed(l.err, <<>>)
    ELSE _addrow(l.row, l.df, tag)

\* the common end of select and select_range
Conclude(l, tag) ==
    IF l.err # "ok" THEN Failed(l.err, <<>>)
    ELSE IF l.df = <<>> THEN Failed(NoData, <<>>)
    ELSE _addrow(l.row, l.df, tag)

do_select(tag, kw) ==
    IF _check_keys(KeysOf(kw)) # "ok"
    THEN Failed(_check_keys(KeysOf(kw)), unrecognized(KeysOf(kw)))
    ELSE Conclude(select_loop(kw, index, <<>>), tag)

-----------------------------------------------------------------------------
(* select_range and select_within                                           *)

\* _check_range on one bound: a Quantity is first converted for a coordinate
\* key (the key is upper-cased, not resolved); the bound must then be a number
BoundIsBad(ku, a) ==
    /\ a.k # "none"
    /\ LET b == IF a.k = "qty" THEN _sanitize_coordinates(ku, a).v ELSE a
       IN  ~IsNumber(b)

\* the list `bad`: the key, once for each of its offending bounds
BadBounds(ku, xs) ==
    SelectSeq([j \in 1..Len(xs) |-> IF BoundIsBad(ku, xs[j]) THEN ku ELSE ""],
              LAMBDA k : k # "")

\* the loop of _check_range: a value that is no tuple or list raises at
\* once; the offending bounds are collected in `bad`
RECURSIVE check_range_loop(_, _)
check_range_loop(kw, bad) ==
    IF kw = <<>> THEN [err |-> IF Len(bad) > 0 THEN NotNumeric ELSE "ok", keys |-> bad]
    ELSE IF ~IsSequence(Head(kw)[2]) THEN [err |-> NotARange, keys |-> <<upper(Head(kw)[1])>>]
    ELSE check_range_loop(Tail(kw), bad \o BadBounds(upper(Head(kw)[1]), Head(kw)[2].xs))

_check_range(kw) == check_range_loop(kw, <<>>)

\* whether the column holds numbers
ColIsNumeric(ku) == \A j \in 1..Len(index) : IsNumber(index[j].r[ku])

\* df[ku] <= v or df[ku] >= v raises for a bound that is no number, and for
\* a column of strings that has a cell to compare
CmpRaises(df, ku, v) == IF ColIsNumeric(ku) THEN ~IsNumber(v) ELSE df # <<>>

Ge(df, ku, lo) == merge(df, SelectSeq(df, LAMBDA e : e.r[ku].n >= lo.n))
Le(df, ku, hi) == merge(df, SelectSeq(df, LAMBDA e : e.r[ku].n <= hi.n))
\* the closed range with its upper bound left out
Between_below(df, ku, lo, hi) ==
    merge(df, SelectSeq(df, LAMBDA e : e.r[ku].n < hi.n /\ e.r[ku].n >= lo.n))

Between(df, ku, lo, hi) ==
    merge(df, SelectSeq(df, LAMBDA e : e.r[ku].n <= hi.n /\ e.r[ku].n >= lo.n))

RECURSIVE range_loop(_, _, _)
range_loop(kw, df, row0) ==
    IF kw = <<>> THEN Loop("ok", df, row0)
    ELSE LET ku  == Resolve(Head(kw)[1])
             sv  == _sanitize_input(ku, Head(kw)[2])
             v   == sv.v.xs
             row == DictPut(row0, ku, PyStr(List(v)))
         IN  IF sv.err # "ok" THEN Loop(sv.err, df, row0)
             ELSE IF Len(v) = 2
             THEN IF v[1].k # "none" /\ v[2].k # "none"
                  THEN IF ~InSelf(ku) THEN Loop(NoSuchColumn, df, row)
                       ELSE IF CmpRaises(df, ku, v[2]) \/ CmpRaises(df, ku, v[1])
                       THEN Loop(BadCompare, df, row)
                       ELSE range_loop(Tail(kw), Between(df, ku, v[1], v[2]), row)
                  ELSE IF v[1].k = "none"
                  THEN IF ~InSelf(ku) THEN Loop(NoSuchColumn, df, row)
                       ELSE IF CmpRaises(df, ku, v[2]) THEN Loop(BadCompare, df, row)
                       ELSE range_loop(Tail(kw), Le(df, ku, v[2]), row)
                  ELSE IF ~InSelf(ku) THEN Loop(NoSuchColumn, df, row)
                       ELSE IF CmpRaises(df, ku, v[1]) THEN Loop(BadCompare, df, row)
                       ELSE range_loop(Tail(kw), Ge(df, ku, v[1]), row)
             ELSE IF Len(v) = 1
             THEN IF ~InSelf(ku) THEN Loop(NoSuchColumn, df, row)
                  ELSE IF CmpRaises(df, ku, v[1]) THEN Loop(BadCompare, df, row)
                  ELSE range_loop(Tail(kw), Ge(df, ku, v[1]), row)
             ELSE Loop(BadRange, df, row)

do_select_range(tag, kw) ==
    IF _check_keys(KeysOf(kw)) # "ok"
    THEN Failed(_check_keys(KeysOf(kw)), unrecognized(KeysOf(kw)))
    ELSE IF _check_range(kw).err # "ok"
    THEN Failed(_check_range(kw).err, _check_range(kw).keys)
    ELSE Conclude(range_loop(kw, index, <<>>), tag)

\* v[0] - v[1] and v[0] + v[1]
Minus(a, b) == Val(IF a.k = "num" /\ b.k = "num" THEN "num" ELSE "float", a.n - b.n, "", <<>>)
Plus(a, b)  == Val(IF a.k = "num" /\ b.k = "num" THEN "num" ELSE "float", a.n + b.n, "", <<>>)

\* the window taken from the center up only
Window_above(kw) ==
    [j \in 1..Len(kw) |->
        <<kw[j][1], Tuple(<<kw[j][2].xs[1], Plus(kw[j][2].xs[1], kw[j][2].xs[2])>>)>>]

\* the kwargs select_within hands to select_range
Window(kw) ==
    [j \in 1..Len(kw) |->
        <<kw[j][1], Tuple(<<Minus(kw[j][2].xs[1], kw[j][2].xs[2]),
                            Plus(kw[j][2].xs[1], kw[j][2].xs[2])>>)>>]

\* a value select_within can take the difference and the sum of
HasCenterAndEpsilon(v) ==
    IsSequence(v) /\ Len(v.xs) >= 2 /\ IsNumber(v.xs[1]) /\ IsNumber(v.xs[2])

do_select_within(tag, kw) ==
    IF \E j \in 1..Len(kw) : ~HasCenterAndEpsilon(kw[j][2])
    THEN Failed(BadOperand, <<>>)
    ELSE do_select_range(tag, Window(kw))

-----------------------------------------------------------------------------
(* remove                                                                   *)

\* id=None
NoId == -1

\* Table.remove_rows: the table without the rows at the given positions
WithoutRows(t, ps) ==
    LET keep == SelectSeq([j \in 1..Len(t) |-> j], LAMBDA j : j \notin ps)
    IN  [j \in 1..Len(keep) |-> t[keep[j]]]

\* _table.loc_indices[column, value]
IdRows(id)   == {j \in 1..Len(_table) : _table[j].ID = id}
TagRows(tag) == {j \in 1..Len(_table) : _table[j].TAG = tag}

\* for i in matching["ID"]: del self._selection_rules[i]
RECURSIVE DelEach(_, _, _)
DelEach(ids, t, sr) ==
    IF ids = <<>> THEN Outcome("ok", t, sr)
    ELSE IF Head(ids) \notin DictKeys(sr) THEN Outcome(NoSuchId, t, sr)
    ELSE DelEach(Tail(ids), t, DictDel(sr, Head(ids)))

\* remove by id taking the ID for the position of the row in the table
remove_by_id_as_position(id) ==
    IF id \in DictKeys(_selection_rules)
    THEN IF id + 1 > Len(_table)
         THEN Outcome(OutOfBounds, _table, DictDel(_selection_rules, id))
         ELSE Outcome("ok", WithoutRows(_table, {id + 1}), DictDel(_selection_rules, id))
    ELSE Failed(NoSuchId, <<>>)

remove_by_id(id) ==
    IF id \in DictKeys(_selection_rules)
    THEN IF IdRows(id) = {}
         THEN Outcome(NoMatches, _table, DictDel(_selection_rules, id))
         ELSE Outcome("ok", WithoutRows(_table, IdRows(id)), DictDel(_selection_rules, id))
    ELSE Failed(NoSuchId, <<>>)

\* one matching row: loc_indices gives an int, _table[int] a Row, whose "ID"
\* is read after the row is removed and is no iterable
remove_by_tag(tag) ==
    LET matching_indices == TagRows(tag)
        matching == SelectSeq(_table, LAMBDA row : row.TAG = tag)
        t == WithoutRows(_table, matching_indices)
    IN  IF matching_indices = {} THEN Failed(NoMatches, <<>>)
        ELSE IF Cardinality(matching_indices) = 1
        THEN IF matching_indices = {Len(_table)}
             THEN Outcome(OutOfBounds, t, _selection_rules)
             ELSE Outcome(NotIterable, t, _selection_rules)
        ELSE DelEach([j \in 1..Len(matching) |-> matching[j].ID], t, _selection_rules)

\* remove without the check that only one of id and tag is given
do_remove_unchecked(id, tag) ==
    IF id = NoId /\ tag = NoTag THEN Failed(EitherOne, <<>>)
    ELSE IF id # NoId THEN remove_by_id(id)
    ELSE remove_by_tag(tag)

do_remove(id, tag) ==
    IF id # NoId /\ tag # NoTag THEN Failed(OnlyOne, <<>>)
    ELSE IF id = NoId /\ tag = NoTag THEN Failed(EitherOne, <<>>)
    ELSE IF id # NoId THEN remove_by_id(id)
    ELSE remove_by_tag(tag)

-----------------------------------------------------------------------------
(* final                                                                    *)

RECURSIVE merge_all(_, _)
merge_all(df, rules) ==
    IF rules = <<>> THEN df
    ELSE merge_all(merge(df, Head(rules)[2]), Tail(rules))

final == merge_all(index, _selection_rules)

\* final taking each frame out of _selection_rules as it merges it
do_final_consuming == [out |-> final, table |-> _table, rules |-> <<>>]

\* final works on deepcopy(self): the store it leaves behind is the store it found
do_final == [out |-> final, table |-> _table, rules |-> _selection_rules]

-----------------------------------------------------------------------------
(* show                                                                     *)

\* _table.colnames
colnames == {"ID", "TAG", "# SELECTED"} \cup DEFKEYS

\* np.all([self._table[k].data[i] == "" for i in range(len(self._table))]):
\* an int of ID or # SELECTED is never equal to ""
AllEmpty(k) ==
    CASE k \in {"ID", "# SELECTED"} -> Len(_table) = 0
      [] k = "TAG" -> \A j \in 1..Len(_table) : _table[j].TAG = ""
      [] OTHER -> \A j \in 1..Len(_table) : _table[j].crit[k] = ""

\* _set_pprint_exclude_names: the exclusion is set only for a table with rows
_set_pprint_exclude_names ==
    IF Len(_table) > 0 THEN {k \in colnames : AllEmpty(k)} ELSE pprint_exclude_names

\* print(self._table): the columns of the table but the excluded ones
Printed(exclude) == colnames \ exclude

-----------------------------------------------------------------------------
(* The tables a Selection is built on, and the calls made on it             *)

\* rows that differ from each other; OBJECT "A" is in the first and the last row
DistinctRows == <<MkRow(1, 0, "A", 10), MkRow(2, 0, "B", 20), MkRow(2, 1, "A", 20)>>

\* two rows identical in every column and a third; the identical rows are
\* next to each other, so a merge puts out the same order whether pandas
\* keeps the order of the left frame or groups the equal rows
RepeatedRows == <<MkRow(1, 0, "A", 10), MkRow(1, 0, "A", 10), MkRow(2, 0, "B", 20)>>

Tables == {DistinctRows, RepeatedRows}

\* at most MaxRules rules are stored, with ids up to MaxId
MaxRules == 2
MaxId == 2

Tags == {NoTag, "a"}

Kw1(k, v) == <<<<k, v>>>>
Kw2(k1, v1, k2, v2) == <<<<k1, v1>>, <<k2, v2>>>>

SelectArgs ==
    { Kw1("scan", Num(1)), Kw1("object", Str("A")), Kw1("object", List(<<Str("A")>>)),
      Kw1("bintable", Num(0)), Kw1("foo", Num(1)), Kw1("scan", Num(9)),
      Kw1("ra", Str("bad")) }

RangeArgs ==
    { Kw1("scan", Tuple(<<Num(1), Num(1)>>)), Kw1("scan", Tuple(<<Str("x"), Num(1)>>)) }

WithinArgs ==
    { Kw1("scan", Tuple(<<Num(1), Num(0)>>)), Kw1("scan", Tuple(<<Str("x"), Num(1)>>)) }

Ids == {NoId} \cup 0..MaxId

\* the tags remove is called with: none, the tag the calls give, a tag no
\* rule has, and the tags of the stored rules
RemoveTags == {NoTag, "a", "zz"} \cup {_table[j].TAG : j \in 1..Len(_table)}

Call(op, tag, kw, id) == [op |-> op, tag |-> tag, kw |-> kw, id |-> id]

\* ScanBlock(): a block without scans, its lists empty; nothing returned yet
EmptyBlock == [_timeaveraged |-> <<>>, _polaveraged |-> <<>>]

NoScans == scans = <<>> /\ block = EmptyBlock /\ returned = <<>>

-----------------------------------------------------------------------------
(* The state machine                                                        *)

Init ==
    /\ index \in {RangeFrame(t) : t \in Tables}
    /\ _table = <<>>
    /\ _selection_rules = <<>>
    /\ _aliases = default_aliases
    /\ call = Call("__init__", NoTag, <<>>, NoId)
    /\ err = "ok"
    /\ errkeys = <<>>
    /\ handed_out = -1
    /\ pprint_exclude_names = {}
    /\ NoScans

\* the store has room for the rule a builder may add
Room == Len(_selection_rules) < MaxRules /\ _next_id <= MaxId

\* a builder that filters the DataFrame itself: the metadata table becomes
\* the frame of the rule just stored
Becomes_in_place(r, c) ==
    /\ _table' = r.table
    /\ _selection_rules' = r.rules
    /\ err' = r.err
    /\ errkeys' = r.keys
    /\ call' = c
    /\ handed_out' = IF Len(r.table) > Len(_table) /\ r.table[Len(r.table)].ID > handed_out
                      THEN r.table[Len(r.table)].ID ELSE handed_out
    /\ index' = IF Len(r.table) > Len(_table)
                THEN DictGet(r.rules, r.table[Len(r.table)].ID) ELSE index
    /\ UNCHANGED <<_aliases, pprint_exclude_names, scans, block, returned>>

Becomes(r, c) ==
    /\ _table' = r.table
    /\ _selection_rules' = r.rules
    /\ err' = r.err
    /\ errkeys' = r.keys
    /\ call' = c
    /\ handed_out' = IF Len(r.table) > Len(_table) /\ r.table[Len(r.table)].ID > handed_out
                      THEN r.table[Len(r.table)].ID ELSE handed_out
    /\ UNCHANGED <<index, _aliases, pprint_exclude_names, scans, block, returned>>

select(tag, kw) == Room /\ Becomes(do_select(tag, kw), Call("select", tag, kw, NoId))

select_range(tag, kw) ==
    Room /\ Becomes(do_select_range(tag, kw), Call("select_range", tag, kw, NoId))

select_within(tag, kw) ==
    Room /\ Becomes(do_select_within(tag, kw), Call("select_within", tag, kw, NoId))

remove(id, tag) == Becomes(do_remove(id, tag), Call("remove", tag, <<>>, id))

alias(kw) ==
    /\ _aliases' = do_alias(kw).aliases
    /\ err' = do_alias(kw).err
    /\ errkeys' = do_alias(kw).keys
    /\ call' = Call("alias", NoTag, kw, NoId)
    /\ UNCHANGED <<index, _table, _selection_rules, handed_out, pprint_exclude_names,
                   scans, block, returned>>

show ==
    /\ pprint_exclude_names' = _set_pprint_exclude_names
    /\ call' = Call("show", NoTag, <<>>, NoId)
    /\ err' = "ok"
    /\ errkeys' = <<>>
    /\ UNCHANGED <<index, _table, _selection_rules, _aliases, handed_out,
                   scans, block, returned>>

\* the property final: the frame it returns is do_final.out
get_final ==
    /\ _table' = do_final.table
    /\ _selection_rules' = do_final.rules
    /\ call' = Call("final", NoTag, <<>>, NoId)
    /\ err' = "ok"
    /\ errkeys' = <<>>
    /\ UNCHANGED <<index, _aliases, handed_out, pprint_exclude_names,
                   scans, block, returned>>

Next ==
    \/ \E tag \in Tags, kw \in SelectArgs : select(tag, kw)
    \/ \E tag \in Tags, kw \in RangeArgs : select_range(tag, kw)
    \/ \E tag \in Tags, kw \in WithinArgs : select_within(tag, kw)
    \/ \E id \in Ids, tag \in RemoveTags : remove(id, tag)

Spec == Init /\ [][Next]_vars

-----------------------------------------------------------------------------------------------------------------------------------------------------
(* The builders on calls of every value form.  ExactSpec has select on a    *)
(* scalar, a list of strings, a list of numbers, one key and two keys in    *)
(* either order, on the tables DistinctRows and ExampleRows; RangeSpec has  *)
(* select_range and select_within on closed and open ranges and windows,    *)
(* one key and two keys in either order, on the tables of Init.             *)

\* the table of the worked example: SCAN 1,1,1,2,2,3,3,3,3,4 with every other
\* column the same in all rows, so rows of one SCAN are identical
ExampleScans == <<1, 1, 1, 2, 2, 3, 3, 3, 3, 4>>
ExampleRows == [j \in 1..Len(ExampleScans) |-> MkRow(ExampleScans[j], 0, "A", 10)]

ExactTables == {DistinctRows, ExampleRows}

ExactInit ==
    /\ index \in {RangeFrame(t) : t \in ExactTables}
    /\ _table = <<>>
    /\ _selection_rules = <<>>
    /\ _aliases = default_aliases
    /\ call = Call("__init__", NoTag, <<>>, NoId)
    /\ err = "ok"
    /\ errkeys = <<>>
    /\ handed_out = -1
    /\ pprint_exclude_names = {}
    /\ NoScans

ExactSelectArgs ==
    { Kw1("scan", Num(1)), Kw1("scan", Num(2)),
      Kw1("scan", List(<<Num(1), Num(2)>>)),
      Kw1("object", List(<<Str("A"), Str("B")>>)),
      Kw2("scan", Num(2), "object", List(<<Str("A")>>)),
      Kw2("object", List(<<Str("A")>>), "scan", Num(2)),
      Kw2("scan", Num(2), "ifnum", Num(0)) }

ExactRangeArgs ==
    { Kw1("scan", Tuple(<<Num(1), Num(1)>>)), Kw1("scan", Tuple(<<Num(2), Num(3)>>)) }

\* the calls are untagged; remove is by the id of a stored frame or by the
\* tag of a stored rule
ExactNext ==
    \/ \E kw \in ExactSelectArgs : select(NoTag, kw)
    \/ \E kw \in ExactRangeArgs : select_range(NoTag, kw)
    \/ \E id \in DictKeys(_selection_rules) : remove(id, NoTag)
    \/ \E j \in 1..Len(_table) : remove(NoId, _table[j].TAG)

ExactSpec == ExactInit /\ [][ExactNext]_vars

RangeSelectArgs == { Kw1("scan", Num(9)) }

RangeRangeArgs ==
    { Kw1("scan", Tuple(<<Num(1), Num(1)>>)), Kw1("scan", Tuple(<<Num(2), Num(3)>>)),
      Kw1("scan", Tuple(<<None, Num(1)>>)), Kw1("scan", Tuple(<<Num(2), None>>)),
      Kw1("scan", Tuple(<<Num(2)>>)), Kw1("scan", Tuple(<<Num(5), Num(9)>>)),
      Kw1("ra", Tuple(<<None, Num(10)>>)),
      Kw2("scan", Tuple(<<Num(2), Num(3)>>), "ifnum", Tuple(<<Num(1), Num(1)>>)) }

RangeWithinArgs ==
    { Kw1("scan", Tuple(<<Num(2), Num(1)>>)), Kw1("scan", Tuple(<<Num(7), Num(1)>>)),
      Kw2("scan", Tuple(<<Num(2), Num(1)>>), "ifnum", Tuple(<<Num(0), Num(0)>>)) }

RangeNext ==
    \/ \E kw \in RangeSelectArgs : select(NoTag, kw)
    \/ \E kw \in RangeRangeArgs : select_range(NoTag, kw)
    \/ \E kw \in RangeWithinArgs : select_within(NoTag, kw)
    \/ \E id \in DictKeys(_selection_rules) : remove(id, NoTag)
    \/ \E j \in 1..Len(_table) : remove(NoId, _table[j].TAG)

RangeSpec == Init /\ [][RangeNext]_vars

-----------------------------------------------------------------------------
(* Keys and aliases.  KeySpec has alias on a column, on an alias, on an     *)
(* alias already registered and on names that are neither, and the builders *)
(* on aliases and columns in several letter cases, on unknown keys, on two  *)
(* keys of one column and on ranges of several offending values.            *)

AliasArgs ==
    { Kw1("lon", Str("crval2")), Kw1("lon", Str("ra")), Kw1("lon", Str("scan")),
      Kw2("lon", Str("foo"), "lat", Str("bar")),
      Kw2("lon", Str("crval2"), "lat", Str("foo")) }

KeySelectArgs ==
    { Kw1("ra", Num(10)), Kw1("Ra", Num(10)), Kw1("crval2", Num(10)),
      Kw1("CRVAL2", Num(10)), Kw1("lon", Num(10)),
      Kw1("source", Str("A")), Kw1("object", Str("A")),
      Kw2("foo", Num(1), "bar", Num(2)), Kw2("foo", Num(1), "scan", Num(1)),
      Kw2("object", Str("A"), "source", List(<<Str("A"), Str("B")>>)),
      Kw2("source", List(<<Str("A"), Str("B")>>), "object", Str("A")) }

KeyRangeArgs ==
    { Kw2("foo", Tuple(<<Num(1), Num(2)>>), "bar", Tuple(<<Num(1), Num(2)>>)),
      Kw2("scan", Tuple(<<Str("x"), Num(1)>>), "ifnum", Tuple(<<Str("y"), Num(1)>>)),
      Kw2("scan", Tuple(<<Str("x"), Str("y")>>), "ifnum", Tuple(<<Num(0), Num(1)>>)),
      Kw2("scan", Num(5), "ifnum", Tuple(<<Str("x"), Num(1)>>)),
      Kw2("ifnum", Tuple(<<Str("x"), Num(1)>>), "scan", Num(5)),
      Kw1("ra", Tuple(<<Str("10d"), Str("20d")>>)),
      Kw1("ra", Tuple(<<Qty(10), Qty(10)>>)),
      Kw1("scan", Tuple(<<Qty(1), Qty(2)>>)) }

KeyWithinArgs ==
    { Kw2("foo", Tuple(<<Num(1), Num(0)>>), "bar", Tuple(<<Num(1), Num(0)>>)) }

KeyNext ==
    \/ \E kw \in AliasArgs : alias(kw)
    \/ \E kw \in KeySelectArgs : select(NoTag, kw)
    \/ \E kw \in KeyRangeArgs : select_range(NoTag, kw)
    \/ \E kw \in KeyWithinArgs : select_within(NoTag, kw)
    \/ \E id \in DictKeys(_selection_rules) : remove(id, NoTag)
    \/ \E j \in 1..Len(_table) : remove(NoId, _table[j].TAG)

KeyInit ==
    /\ index = RangeFrame(DistinctRows)
    /\ _table = <<>>
    /\ _selection_rules = <<>>
    /\ _aliases = default_aliases
    /\ call = Call("__init__", NoTag, <<>>, NoId)
    /\ err = "ok"
    /\ errkeys = <<>>
    /\ handed_out = -1
    /\ pprint_exclude_names = {}
    /\ NoScans

KeySpec == KeyInit /\ [][KeyNext]_vars

-----------------------------------------------------------------------------
(* Every operation of the class.  StoreSpec has the three builders on       *)
(* different columns, remove by id and by tag, alias, show and final.        *)

StoreSelectArgs == { Kw1("object", Str("A")) }

StoreRangeArgs == { Kw1("ifnum", Tuple(<<Num(1), Num(1)>>)) }

StoreWithinArgs == { Kw1("scan", Tuple(<<Num(2), Num(0)>>)) }

StoreAliasArgs == { Kw1("lon", Str("crval2")) }

StoreNext ==
    \/ \E kw \in StoreSelectArgs : select(NoTag, kw)
    \/ \E kw \in StoreRangeArgs : select_range(NoTag, kw)
    \/ \E kw \in StoreWithinArgs : select_within(NoTag, kw)
    \/ \E id \in DictKeys(_selection_rules) : remove(id, NoTag)
    \/ \E j \in 1..Len(_table) : remove(NoId, _table[j].TAG)
    \/ \E kw \in StoreAliasArgs : alias(kw)
    \/ show
    \/ get_final

StoreSpec == KeyInit /\ [][StoreNext]_vars

-----------------------------------------------------------------------------
(* Generated tags.  TagSpec has untagged select and select_range calls on   *)
(* different columns whose values read the same, and remove by tag and id.   *)

TagSelectArgs ==
    { Kw1("scan", Num(1)), Kw1("ifnum", Num(1)), Kw1("scan", Num(2)),
      Kw2("scan", Num(2), "ifnum", Num(1)), Kw2("ifnum", Num(0), "scan", Num(2)) }

TagRangeArgs ==
    { Kw1("scan", Tuple(<<Num(1), Num(1)>>)), Kw1("ifnum", Tuple(<<Num(1), Num(1)>>)) }

TagNext ==
    \/ \E kw \in TagSelectArgs : select(NoTag, kw)
    \/ \E kw \in TagRangeArgs : select_range(NoTag, kw)
    \/ \E id \in DictKeys(_selection_rules) : remove(id, NoTag)
    \/ \E j \in 1..Len(_table) : remove(NoId, _table[j].TAG)

TagSpec == KeyInit /\ [][TagNext]_vars

-----------------------------------------------------------------------------
(* PSScan and ScanBlock (spectra/scan.py)                                   *)

NoAttribute   == "AttributeError: 'PSScan' object has no attribute '_calibrated'"
NotCalibrated == "Exception: You can't time average before calibration."
TcalMismatch  == "Exception: TCAL length and number of spectra don't match"
NoneHasNoLen  == "TypeError: object of type 'NoneType' has no len()"

\* an attribute of an object: never assigned, None, or holding a value
Unset    == [st |-> "unset", v |-> <<>>]
IsNone   == [st |-> "none", v |-> <<>>]
Holds(v) == [st |-> "set", v |-> v]

\* PSScan.__init__: _nrows is the number of ON rows, _refonrows the rows of
\* the reference with the noise diode on; _tsys is None and _calibrated,
\* _status and _timeaveraged are not assigned
PSScan(nrows, nrefon) ==
    [_nrows |-> nrows, _refonrows |-> nrefon, _tsys |-> IsNone,
     _calibrated |-> Unset, _status |-> Unset, _timeaveraged |-> Unset]

\* a Spectrum, by what it was made from: the scan (its place in the block),
\* the number of calibrated integrations averaged, and the weights
Spectrum(k, n, weights) == [none |-> FALSE, scan |-> k, of |-> n, weights |-> weights]

\* the None that ScanMixin.polaverage returns
NoSpectrum == [none |-> TRUE, scan |-> 0, of |-> 0, weights |-> ""]

\* what a method of a scan returns to the action: how it ended, the scan
\* after it, and the values returned
Did(e, scan, ret) == [err |-> e, scan |-> scan, ret |-> ret]

\* PSScan.calibrate: np.empty leaves _calibrated an array of None and _tsys
\* an array of whatever the memory held until the loop fills them, and the
\* check of the TCAL length raises before the loop
PSScan_calibrate(scan) ==
    LET nspect == scan._nrows \div 2
        empty  == [scan EXCEPT !._status = Holds(<<1>>),
                               !._calibrated = Holds([i \in 1..nspect |-> "None"]),
                               !._tsys = Holds([i \in 1..nspect |-> "uninitialized"])]
        filled == [empty EXCEPT !._calibrated = Holds([i \in 1..nspect |-> "calibrated"]),
                                !._tsys = Holds([i \in 1..nspect |-> "tsys"])]
    IN  IF scan._refonrows # nspect THEN Did(TcalMismatch, empty, <<>>)
        ELSE Did("ok", filled, <<>>)

\* PSScan.timeaverage of the scan at place k: reading an attribute that was
\* never assigned raises AttributeError; calibrated(0) indexes _tsys and
\* takes the length of _calibrated[0]
PSScan_timeaverage(scan, k, weights) ==
    IF scan._calibrated.st = "unset" THEN Did(NoAttribute, scan, <<>>)
    ELSE IF scan._calibrated.st = "none" THEN Did(NotCalibrated, scan, <<>>)
    ELSE IF Len(scan._calibrated.v) = 0 THEN Did(OutOfBounds, scan, <<>>)
    ELSE IF scan._calibrated.v[1] = "None" THEN Did(NoneHasNoLen, scan, <<>>)
    ELSE LET sp == Spectrum(k, Len(scan._calibrated.v), weights)
         IN  Did("ok", [scan EXCEPT !._timeaveraged = Holds(<<sp>>)], <<sp>>)

\* ScanMixin.polaverage, which PSScan does not override: pass
PSScan_polaverage(scan, weights) == Did("ok", scan, <<NoSpectrum>>)

\* what a method of the block returns to the action
BlockDid(e, ss, b, ret) == [err |-> e, scans |-> ss, block |-> b, ret |-> ret]

\* ScanBlock.calibrate: the scans in order, up to the first that raises
RECURSIVE calibrate_loop(_, _)
calibrate_loop(ss, k) ==
    IF k > Len(ss) THEN BlockDid("ok", ss, block, <<>>)
    ELSE LET d == PSScan_calibrate(ss[k])
         IN  IF d.err # "ok" THEN BlockDid(d.err, [ss EXCEPT ![k] = d.scan], block, <<>>)
             ELSE calibrate_loop([ss EXCEPT ![k] = d.scan], k + 1)

\* ScanBlock.timeaverage: each scan's average is appended to the list
\* _timeaveraged of the block, and that list is returned
RECURSIVE timeaverage_loop(_, _, _, _)
timeaverage_loop(ss, k, b, weights) ==
    IF k > Len(ss) THEN BlockDid("ok", ss, b, b._timeaveraged)
    ELSE LET d == PSScan_timeaverage(ss[k], k, weights)
         IN  IF d.err # "ok" THEN BlockDid(d.err, ss, b, <<>>)
             ELSE timeaverage_loop([ss EXCEPT ![k] = d.scan], k + 1,
                                   [b EXCEPT !._timeaveraged = @ \o d.ret], weights)

\* ScanBlock.polaverage, likewise with _polaveraged
RECURSIVE polaverage_loop(_, _, _, _)
polaverage_loop(ss, k, b, weights) ==
    IF k > Len(ss) THEN BlockDid("ok", ss, b, b._polaveraged)
    ELSE LET d == PSScan_polaverage(ss[k], weights)
         IN  polaverage_loop([ss EXCEPT ![k] = d.scan], k + 1,
                             [b EXCEPT !._polaveraged = @ \o d.ret], weights)

\* a block has at most MaxScans scans, and its lists at most MaxAveraged entries
MaxScans == 2
MaxAveraged == 4

\* scans of one and of two integrations, and one whose TCAL column has one
\* value for two integrations
ScanKinds == {PSScan(2, 1), PSScan(4, 2), PSScan(4, 1)}

Blocks == UNION {[1..n -> ScanKinds] : n \in 1..MaxScans}

Weights == {"tsys", "None"}

ScanCall(op, k, weights) == Call(op, NoTag, Kw1("weights", Str(weights)), k)

ScanInit ==
    /\ index = RangeFrame(DistinctRows)
    /\ _table = <<>>
    /\ _selection_rules = <<>>
    /\ _aliases = default_aliases
    /\ call = Call("ScanBlock", NoTag, <<>>, NoId)
    /\ err = "ok"
    /\ errkeys = <<>>
    /\ handed_out = -1
    /\ pprint_exclude_names = {}
    /\ scans \in Blocks
    /\ block = EmptyBlock
    /\ returned = <<>>

ScanBecomes(d, c) ==
    /\ scans' = d.scans
    /\ block' = d.block
    /\ returned' = d.ret
    /\ err' = d.err
    /\ call' = c
    /\ UNCHANGED <<index, _table, _selection_rules, _aliases, errkeys, handed_out,
                   pprint_exclude_names>>

\* scans[k].calibrate()
scan_calibrate(k) ==
    LET d == PSScan_calibrate(scans[k])
    IN  ScanBecomes(BlockDid(d.err, [scans EXCEPT ![k] = d.scan], block, d.ret),
                    ScanCall("PSScan.calibrate", k, "None"))

\* scans[k].timeaverage(weights)
scan_timeaverage(k, weights) ==
    LET d == PSScan_timeaverage(scans[k], k, weights)
    IN  ScanBecomes(BlockDid(d.err, [scans EXCEPT ![k] = d.scan], block, d.ret),
                    ScanCall("PSScan.timeaverage", k, weights))

block_calibrate ==
    ScanBecomes(calibrate_loop(scans, 1), ScanCall("ScanBlock.calibrate", NoId, "None"))

block_timeaverage(weights) ==
    /\ Len(block._timeaveraged) + Len(scans) <= MaxAveraged
    /\ ScanBecomes(timeaverage_loop(scans, 1, block, weights),
                   ScanCall("ScanBlock.timeaverage", NoId, weights))

block_polaverage(weights) ==
    /\ Len(block._polaveraged) + Len(scans) <= MaxAveraged
    /\ ScanBecomes(polaverage_loop(scans, 1, block, weights),
                   ScanCall("ScanBlock.polaverage", NoId, weights))

ScanNext ==
    \/ \E k \in 1..Len(scans) : scan_calibrate(k)
    \/ \E k \in 1..Len(scans), w \in Weights : scan_timeaverage(k, w)
    \/ block_calibrate
    \/ \E w \in Weights : block_timeaverage(w)
    \/ \E w \in Weights : block_polaverage(w)

ScanSpec == ScanInit /\ [][ScanNext]_vars

-----------------------------------------------------------------------------
(* consecutive (util/core.py)                                               *)

\* np.split(data, cuts): data cut before each (0-based) position of cuts
RECURSIVE np_split(_, _)
np_split(data, cuts) ==
    IF cuts = {} THEN <<data>>
    ELSE LET c == CHOOSE x \in cuts : \A y \in cuts : y <= x
         IN  np_split(SubSeq(data, 1, c), cuts \ {c}) \o <<SubSeq(data, c + 1, Len(data))>>

\* np.diff(data): the difference of each element from the one before it
np_diff(data) == [i \in 1..(Len(data) - 1) |-> data[i + 1] - data[i]]

\* consecutive(data, stepsize):
\* np.split(data, np.where(np.diff(data) >= stepsize)[0] + 1)
consecutive(data, stepsize) ==
    np_split(data, {i \in DOMAIN np_diff(data) : np_diff(data)[i] >= stepsize})

\* data has at most MaxLen elements, each in 0..MaxDatum
MaxLen == 3
MaxDatum == 3

Data == UNION {[1..n -> 0..MaxDatum] : n \in 0..MaxLen}

\* the default stepsize and one more
Stepsizes == {1, 2}

\* groups = consecutive(data, stepsize)
call_consecutive(data, stepsize) ==
    /\ call' = Call("consecutive", NoTag,
                    Kw2("data", List([i \in DOMAIN data |-> Num(data[i])]),
                        "stepsize", Num(stepsize)), NoId)
    /\ returned' = consecutive(data, stepsize)
    /\ err' = "ok"
    /\ UNCHANGED <<index, _table, _selection_rules, _aliases, errkeys, handed_out,
                   pprint_exclude_names, scans, block>>

ConsecNext == \E data \in Data, stepsize \in Stepsizes : call_consecutive(data, stepsize)

ConsecSpec == KeyInit /\ [][ConsecNext]_vars

-----------------------------------------------------------------------------
(* Vocabulary of the properties                                             *)

Builders == {"select", "select_range", "select_within"}

\* the call ended in an exception
IsError(e) == e \notin {"ok", NoData}

IdsOf(t) == {t[j].ID : j \in 1..Len(t)}

\* the bookkeeping row of the rule with the given id
RowOfId(t, id) == t[CHOOSE j \in 1..Len(t) : t[j].ID = id]

\* a rule is active when the bookkeeping table has its row; its result is
\* the frame stored under its id
Results(t, sr) == [id \in IdsOf(t) \cap DictKeys(sr) |-> DictGet(sr, id)]

\* the rows of the metadata table, by position, that occur in a frame
RowSet(df) == {j \in 1..Len(index) : \E e \in 1..Len(df) : df[e].r = index[j].r}

\* the frame a builder call computes before it asks the store to add it
Candidate(c) ==
    CASE c.op = "select" ->
           IF _check_keys(KeysOf(c.kw)) # "ok" THEN Loop(UnknownKey, <<>>, <<>>)
           ELSE select_loop(c.kw, index, <<>>)
      [] c.op = "select_range" ->
           IF _check_keys(KeysOf(c.kw)) # "ok" THEN Loop(UnknownKey, <<>>, <<>>)
           ELSE IF _check_range(c.kw).err # "ok" THEN Loop(NotNumeric, <<>>, <<>>)
           ELSE range_loop(c.kw, index, <<>>)
      [] c.op = "select_within" ->
           IF \E j \in 1..Len(c.kw) : ~HasCenterAndEpsilon(c.kw[j][2])
           THEN Loop(BadOperand, <<>>, <<>>)
           ELSE IF _check_keys(KeysOf(c.kw)) # "ok" THEN Loop(UnknownKey, <<>>, <<>>)
           ELSE IF _check_range(Window(c.kw)).err # "ok" THEN Loop(NotNumeric, <<>>, <<>>)
           ELSE range_loop(Window(c.kw), index, <<>>)
      [] OTHER -> Loop("no builder", <<>>, <<>>)

\* the call selects at least one row, and exactly the rows of an active rule
SelectsRowsOfActiveRule(c) ==
    /\ c.op \in Builders
    /\ Candidate(c).err = "ok"
    /\ Candidate(c).df # <<>>
    /\ \E id \in DOMAIN Results(_table, _selection_rules) :
           RowSet(Results(_table, _selection_rules)[id]) = RowSet(Candidate(c).df)

-----------------------------------------------------------------------------
(* C1..C10: duplicates, ids, atomicity, remove, final                       *)

\* C1: a builder call whose computed subset has exactly the rows of an
\* active rule's result fails with the duplicate-rule error and stores
\* nothing, whichever builder or value form produced either subset.
C1_DuplicateSubsetRejected ==
    [][SelectsRowsOfActiveRule(call')
          => err' = DuplicateRule /\ Len(_table') = Len(_table)]_vars

\* a rule was added to the bookkeeping table by this step
Added == Len(_table') = Len(_table) + 1

NewId == _table'[Len(_table')].ID

\* C2 as claimed: every newly stored rule gets an id above every id handed
\* out before, those of removed rules included.
C2_IdNeverReused == [][Added => NewId > handed_out]_vars

\* C2 as the code has it: every newly stored rule gets an id above the ids
\* of the rules active when it is added, 0 when there is none; the id of a
\* removed rule is handed out again when no active id is above it.
C2_IdAboveActiveIds ==
    [][Added => /\ \A id \in IdsOf(_table) : NewId > id
                /\ NewId >= 0
                /\ (_table = <<>> => NewId = 0)
                /\ _table' = Append(_table, _table'[Len(_table')])]_vars

\* C2 witness: a rule was just added beside an active rule, with an id above
\* the active rule's and below an id handed out earlier: ids start at 0 and
\* go up by one, so this id had been handed out before
C2_Witness ==
    /\ call.op \in Builders /\ err = "ok"
    /\ Len(_table) >= 2
    /\ _table[Len(_table)].ID < handed_out
    /\ \A j \in 1..(Len(_table) - 1) : _table[Len(_table)].ID > _table[j].ID

\* C3: a builder call that ends in an error leaves the bookkeeping table
\* and the result map as they were.
C3_FailedBuilderChangesNothing ==
    [][call'.op \in Builders /\ IsError(err')
          => _table' = _table /\ _selection_rules' = _selection_rules]_vars

\* C4: the ids with a materialized result are the ids in the bookkeeping
\* table, after every operation.
C4_ResultsAndRowsInSync == DictKeys(_selection_rules) = IdsOf(_table)

\* the call is remove by tag alone
RemoveByTag(c) == c.op = "remove" /\ c.id = NoId /\ c.tag # NoTag

IdsTagged(t, tag) == {t[j].ID : j \in {j \in 1..Len(t) : t[j].TAG = tag}}

\* C5: remove(tag=t) with one or more active rules tagged t deletes the
\* row and the result of each of them and of no other rule, without an
\* error; with no rule tagged t it fails with not-found and changes nothing.
C5_RemoveByTag ==
    [][RemoveByTag(call') =>
          IF IdsTagged(_table, call'.tag) = {}
          THEN err' = NoMatches /\ _table' = _table /\ _selection_rules' = _selection_rules
          ELSE /\ err' = "ok"
               /\ _table' = SelectSeq(_table, LAMBDA row : row.TAG # call'.tag)
               /\ _selection_rules' =
                      SelectSeq(_selection_rules,
                                LAMBDA e : e[1] \notin IdsTagged(_table, call'.tag))]_vars

\* the call is remove by id alone
RemoveById(c) == c.op = "remove" /\ c.id # NoId /\ c.tag = NoTag

\* C6: remove(id=i) with no active rule of id i fails with a not-found
\* error and leaves the bookkeeping table and the result map unchanged.
C6_RemoveUnknownId ==
    [][RemoveById(call') /\ call'.id \notin IdsOf(_table)
          => /\ err' \in {NoSuchId, NoMatches}
             /\ _table' = _table /\ _selection_rules' = _selection_rules]_vars

\* C7: remove(id=i) with rule i active deletes the row and the result of
\* rule i and nothing else: every other rule keeps its id, tag, criteria,
\* selected count and result, and the rows keep their order.
C7_RemoveByIdFrame ==
    [][RemoveById(call') /\ call'.id \in IdsOf(_table)
          => /\ err' = "ok"
             /\ IdsOf(_table') = IdsOf(_table) \ {call'.id}
             /\ Len(_table') = Len(_table) - 1
             /\ DictKeys(_selection_rules') = DictKeys(_selection_rules) \ {call'.id}
             /\ \A id \in IdsOf(_table') : RowOfId(_table', id) = RowOfId(_table, id)
             /\ \A id \in DictKeys(_selection_rules') :
                    DictGet(_selection_rules', id) = DictGet(_selection_rules, id)
             /\ \A j, k \in 1..Len(_table') :
                    j < k => \E m, n \in 1..Len(_table) :
                                 m < n /\ _table[m] = _table'[j] /\ _table[n] = _table'[k]]_vars

\* C7 witness: rule 0 was just removed by id and another rule is still stored
C7_Witness ==
    /\ RemoveById(call) /\ call.id = 0 /\ err = "ok"
    /\ 0 \notin IdsOf(_table) /\ 1 \in IdsOf(_table)
    /\ 1 \in DictKeys(_selection_rules)

\* C8: remove with both id and tag, or with neither, fails with the
\* bad-arguments error and changes nothing, whether or not the id or the
\* tag names a rule.
C8_RemoveBadArguments ==
    [][call'.op = "remove" /\ ((call'.id # NoId) <=> (call'.tag # NoTag))
          => /\ err' = (IF call'.id # NoId THEN OnlyOne ELSE EitherOne)
             /\ _table' = _table /\ _selection_rules' = _selection_rules]_vars

\* C8 witness: remove was called with the id and the tag of a stored rule,
\* failed, and the rule is still stored
C8_Witness ==
    /\ call.op = "remove" /\ call.id # NoId /\ call.tag # NoTag
    /\ err = OnlyOne
    /\ \E j \in 1..Len(_table) : _table[j].ID = call.id /\ _table[j].TAG = call.tag
    /\ call.id \in DictKeys(_selection_rules)

\* the rows of the metadata table that are in the result of every active rule
InEveryActiveResult ==
    SelectSeq(Rows(index),
              LAMBDA r : \A id \in DOMAIN Results(_table, _selection_rules) :
                  \E e \in 1..Len(Results(_table, _selection_rules)[id]) :
                      Results(_table, _selection_rules)[id][e].r = r)

\* C9: final holds the rows of the table that are in every active rule's
\* result, each once, also for a table with identical rows: every row with
\* no rule, the rule's rows with one, the intersection with two.
C9_FinalIsIntersection == Rows(final) = InEveryActiveResult

\* the results of the active rules, by ascending id
RECURSIVE ActiveById(_)
ActiveById(ids) ==
    IF ids = {} THEN <<>>
    ELSE LET m == CHOOSE i \in ids : \A k \in ids : i <= k
         IN  <<<<m, Results(_table, _selection_rules)[m]>>>> \o ActiveById(ids \ {m})

\* C10: final is a function of the set of active rules alone, whatever
\* calls led to it: it is the table cut down by the results of the active
\* rules, and so the whole table when no rule is active.
C10_FinalOfActiveRules ==
    final = merge_all(index, ActiveById(DOMAIN Results(_table, _selection_rules)))

-----------------------------------------------------------------------------
(* C11..C20: what the builders select, what the store records              *)

\* the call is a builder call that computes a frame without an error
Computes(c) == c.op \in Builders /\ Candidate(c).err = "ok"

\* C11: a builder call whose computed subset is empty ends with the
\* no-data warning and no error, and stores nothing: the bookkeeping table,
\* the result map and the next id are as before the call.
C11_EmptyCandidateStoresNothing ==
    [][Computes(call') /\ Candidate(call').df = <<>>
          => /\ err' = NoData
             /\ _table' = _table
             /\ _selection_rules' = _selection_rules
             /\ _next_id' = _next_id]_vars

\* C11 witness: a range that no row is in was just asked for beside a stored
\* rule, the call ended with the warning and the rule is the only one stored
C11_Witness ==
    /\ call.op = "select_range" /\ Candidate(call).err = "ok" /\ Candidate(call).df = <<>>
    /\ err = NoData
    /\ Len(_table) = 1 /\ DictKeys(_selection_rules) = IdsOf(_table)

\* the row satisfies what one key of a call asks for: the cell equals the
\* scalar or any element of the list (select), lies between the bounds, a
\* missing or None bound being open (select_range), or lies within epsilon
\* of the center (select_within)
KeyHolds(op, k, v, r) ==
    LET c == r[Resolve(k)]
    IN  CASE op = "select" ->
               IF IsSequence(v) THEN \E j \in 1..Len(v.xs) : CellEq(c, v.xs[j])
               ELSE CellEq(c, v)
          [] op = "select_range" ->
               /\ IsNumber(c)
               /\ (v.xs[1].k # "none" => v.xs[1].n <= c.n)
               /\ (Len(v.xs) = 2 /\ v.xs[2].k # "none" => c.n <= v.xs[2].n)
          [] op = "select_within" ->
               /\ IsNumber(c)
               /\ v.xs[1].n - v.xs[2].n <= c.n
               /\ c.n <= v.xs[1].n + v.xs[2].n
          [] OTHER -> FALSE

\* the rows of the metadata table, by position, that satisfy every key of the call
Satisfying(c) ==
    {j \in 1..Len(index) :
        \A e \in 1..Len(c.kw) : KeyHolds(c.op, c.kw[e][1], c.kw[e][2], index[j].r)}

\* a list or tuple of numbers
NumericList(v) == IsSequence(v) /\ v.xs # <<>> /\ \A j \in 1..Len(v.xs) : IsNumber(v.xs[j])

\* the call is a select with a list of numbers for some key
HasNumericList(c) == c.op = "select" /\ \E j \in 1..Len(c.kw) : NumericList(c.kw[j][2])

\* C12: select with a list, tuple or array of numbers for a key ends in an
\* error and stores no rule.
C12_NumericListRejected ==
    [][HasNumericList(call')
          => /\ IsError(err')
             /\ _table' = _table /\ _selection_rules' = _selection_rules]_vars

\* a list or tuple of strings
StringList(v) == IsSequence(v) /\ v.xs # <<>> /\ \A j \in 1..Len(v.xs) : v.xs[j].k = "str"

\* the call is a select with a list of strings for some key
HasStringList(c) == c.op = "select" /\ \E j \in 1..Len(c.kw) : StringList(c.kw[j][2])

\* C13: select with a list of strings for a key computes, and stores when
\* it stores, exactly the rows whose column equals any one of the strings
\* and that satisfy every other key of the call.
C13_StringListIsAnyOf ==
    [][HasStringList(call')
          => /\ Candidate(call').err = "ok"
             /\ RowSet(Candidate(call').df) = Satisfying(call')
             /\ (Added => RowSet(DictGet(_selection_rules', NewId)) = Satisfying(call'))]_vars

\* C13 witness: select(object=["A", "B"]) was just stored on a table with
\* rows of OBJECT A and rows of OBJECT B, and its result has them all
C13_Witness ==
    /\ HasStringList(call) /\ err = "ok" /\ Len(call.kw) = 1
    /\ Len(call.kw[1][2].xs) = 2
    /\ _table # <<>>
    /\ _table[Len(_table)].crit["OBJECT"] = "['A', 'B']"
    /\ \E j, k \in 1..Len(index) : index[j].r["OBJECT"].s = "A" /\ index[k].r["OBJECT"].s = "B"
    /\ RowSet(DictGet(_selection_rules, _table[Len(_table)].ID)) = 1..Len(index)

\* the call with one of its keys alone, and with its two keys in the other order
OnlyKey(c, j) == [c EXCEPT !.kw = <<c.kw[j]>>]
Swapped(c) == [c EXCEPT !.kw = <<c.kw[2], c.kw[1]>>]

\* C14: a builder call with two keys computes the rows that are selected
\* by each key alone, and the frame it computes, which duplicate detection
\* compares, is the same with the keys in the other order.
C14_KeysIntersectInAnyOrder ==
    [][Computes(call') /\ Len(call'.kw) = 2
          => /\ RowSet(Candidate(call').df)
                    = RowSet(Candidate(OnlyKey(call', 1)).df)
                          \cap RowSet(Candidate(OnlyKey(call', 2)).df)
             /\ equals(Candidate(Swapped(call')).df, Candidate(call').df)]_vars

\* numeric columns, by name and by alias, and numbers to select them by
NumericKeys == {"scan", "pol", "crval2"}
SomeNumbers == {Num(1), Num(2), Flt(10)}

\* two outcomes of a call leave the same store but for the text of the
\* criteria and the tag made from it: the same end, the same results under
\* the same ids, and rows with the same ids and selected counts
SameRule(a, b) ==
    /\ a.err = b.err
    /\ a.rules = b.rules
    /\ Len(a.table) = Len(b.table)
    /\ \A j \in 1..Len(a.table) :
           a.table[j].ID = b.table[j].ID /\ a.table[j].SELECTED = b.table[j].SELECTED

\* the last call was a select of one number, or a select_range from a
\* number to itself, and it stored a rule
StoredExactly(c, e) ==
    c.op = "select" /\ e = "ok" /\ Len(c.kw) = 1 /\ IsNumber(c.kw[1][2])
StoredFromTo(c, e) ==
    /\ c.op = "select_range" /\ e = "ok" /\ Len(c.kw) = 1
    /\ Len(c.kw[1][2].xs) = 2 /\ IsNumber(c.kw[1][2].xs[1])
    /\ c.kw[1][2].xs[2] = c.kw[1][2].xs[1]

\* C15: in every state, select(k=v) and select_range(k=(v, v)) on a numeric
\* column would end the same way and store the same result with the same
\* selected count; and when one of them has just been stored, the other
\* fails as a duplicate and stores nothing.
C15_ExactIsRangeOfOne ==
    /\ \A k \in NumericKeys, v \in SomeNumbers :
           SameRule(do_select(NoTag, Kw1(k, v)),
                    do_select_range(NoTag, Kw1(k, Tuple(<<v, v>>))))
    /\ StoredExactly(call, err)
          => do_select_range(NoTag, Kw1(call.kw[1][1], Tuple(<<call.kw[1][2], call.kw[1][2]>>)))
                 = Failed(DuplicateRule, <<>>)
    /\ StoredFromTo(call, err)
          => do_select(NoTag, Kw1(call.kw[1][1], call.kw[1][2].xs[1]))
                 = Failed(DuplicateRule, <<>>)

\* C15 witness: select_range(scan=(1, 1)) was just rejected as a duplicate of
\* the rule that select(scan=1) stored
C15_Witness ==
    /\ call.op = "select_range" /\ call.kw = Kw1("scan", Tuple(<<Num(1), Num(1)>>))
    /\ err = DuplicateRule
    /\ Len(_table) = 1 /\ _table[1].crit["SCAN"] = "1"
    /\ DictKeys(_selection_rules) = {_table[1].ID}

\* the range a window stands for
RangeOfWindow(kw) ==
    [j \in 1..Len(kw) |->
        <<kw[j][1], Tuple(<<Num(kw[j][2].xs[1].n - kw[j][2].xs[2].n),
                            Num(kw[j][2].xs[1].n + kw[j][2].xs[2].n)>>)>>]

\* C16: select_within(k=(c, e)) computes exactly the rows with
\* c-e <= field <= c+e for every key, and leaves the store (rows with id,
\* tag, criteria and selected count, results, error) as
\* select_range(k=(c-e, c+e)) leaves it from the same state.
C16_WithinIsRange ==
    [][call'.op = "select_within"
          => /\ Candidate(call').err = "ok"
             /\ RowSet(Candidate(call').df) = Satisfying(call')
             /\ _table' = do_select_range(call'.tag, RangeOfWindow(call'.kw)).table
             /\ _selection_rules' = do_select_range(call'.tag, RangeOfWindow(call'.kw)).rules
             /\ err' = do_select_range(call'.tag, RangeOfWindow(call'.kw)).err]_vars

\* C16 witness: select_within(scan=(2, 1)) was just stored, with the range
\* [1, 3] for its criterion and the rows of SCAN 1 to 3 for its result, on a
\* table that has rows inside and outside
C16_Witness ==
    /\ call.op = "select_within" /\ call.kw = Kw1("scan", Tuple(<<Num(2), Num(1)>>))
    /\ err = "ok"
    /\ _table # <<>>
    /\ _table[Len(_table)].crit["SCAN"] = "[1, 3]"
    /\ RowSet(DictGet(_selection_rules, _table[Len(_table)].ID))
           = {j \in 1..Len(index) : index[j].r["SCAN"].n \in 1..3}

\* the call is a select_range whose every key has one or two bounds, each
\* a number or None and not all None
HasBounds(c) ==
    /\ c.op = "select_range"
    /\ \A j \in 1..Len(c.kw) :
           LET xs == c.kw[j][2].xs
           IN  /\ Len(xs) \in {1, 2}
               /\ \A e \in 1..Len(xs) : IsNumber(xs[e]) \/ xs[e].k = "none"
               /\ \E e \in 1..Len(xs) : IsNumber(xs[e])

\* C17: select_range(k=(lo, hi)) on a numeric column computes, and stores
\* when it stores, exactly the rows with lo <= field <= hi, both bounds
\* included; (None, hi) the rows with field <= hi; (lo, None) and (lo,) the
\* rows with field >= lo.
C17_RangeIsInclusive ==
    [][HasBounds(call')
          => /\ Candidate(call').err = "ok"
             /\ RowSet(Candidate(call').df) = Satisfying(call')
             /\ (Added => RowSet(DictGet(_selection_rules', NewId)) = Satisfying(call'))]_vars

\* C18: the selected count recorded for a rule when it is stored is the
\* number of rows of the table that satisfy the keys of the call, and the
\* number of rows of the stored result, identical rows included.
C18_SelectedCountsTableRows ==
    [][Added /\ call'.op \in Builders
          => /\ _table'[Len(_table')].SELECTED = Cardinality(Satisfying(call'))
             /\ _table'[Len(_table')].SELECTED = Len(DictGet(_selection_rules', NewId))]_vars

\* the highest of a non-empty set of ids
MaxOf(ids) == CHOOSE m \in ids : \A i \in ids : i <= m

\* C19: a rule that is stored gets id 0 when no rule is active, and
\* otherwise the highest id among the active rules plus one.
C19_IdIsMaxActivePlusOne ==
    [][Added => NewId = (IF IdsOf(_table) = {} THEN 0 ELSE MaxOf(IdsOf(_table)) + 1)]_vars

\* C19 witness: with rule 0 removed and rule 1 active, a rule was just
\* stored and has id 2
C19_Witness ==
    /\ call.op \in Builders /\ err = "ok"
    /\ Len(_table) = 2
    /\ _table[1].ID = 1 /\ _table[2].ID = 2

\* the ids of the rows are pairwise distinct and not negative
DistinctIds(t) ==
    /\ \A j, k \in 1..Len(t) : j # k => t[j].ID # t[k].ID
    /\ \A j \in 1..Len(t) : t[j].ID \in Nat

\* C20: the active rules have pairwise distinct, non-negative ids in every
\* state, and a builder call neither adds a row with the id of an active
\* rule nor replaces the result stored under an active id.
C20_ActiveIdsDistinct ==
    [][/\ DistinctIds(_table) /\ DistinctIds(_table')
       /\ call'.op \in Builders
             => /\ Added => NewId \notin IdsOf(_table)
                /\ \A id \in IdsOf(_table) \cap DictKeys(_selection_rules) :
                       /\ id \in DictKeys(_selection_rules')
                       /\ DictGet(_selection_rules', id) = DictGet(_selection_rules, id)]_vars

\* C20 witness: rule 0 was removed while rule 1 was active, and a rule was
\* then stored beside rule 1, whose result is the one it had
C20_Witness ==
    /\ call.op \in Builders /\ err = "ok"
    /\ Len(_table) = 2 /\ _table[1].ID = 1 /\ _table[2].ID > 1
    /\ {1, _table[2].ID} \subseteq DictKeys(_selection_rules)
    /\ Len(DictGet(_selection_rules, 1)) = _table[1].SELECTED
    /\ handed_out = _table[2].ID

-----------------------------------------------------------------------------
(* C21..C30: keys, aliases, tags, show, frame conditions                    *)

\* the names a call has checked: the keys of a builder, the columns of alias
Named(c) == IF c.op = "alias" THEN ValuesOf(c.kw) ELSE KeysOf(c.kw)

\* the names of a call that are, in upper case, neither a registered alias
\* nor a column of the metadata table
UnknownNames(c) ==
    {upper(Named(c)[j]) : j \in {i \in 1..Len(Named(c)) :
        upper(Named(c)[i]) \notin Columns /\ upper(Named(c)[i]) \notin DOMAIN _aliases}}

\* the values of a select_within call are windows (center, epsilon) of numbers
WindowsOnly(c) ==
    c.op = "select_within" => \A j \in 1..Len(c.kw) : HasCenterAndEpsilon(c.kw[j][2])

OffendingValue(v) ==
    \/ ~IsSequence(v)
    \/ \E j \in 1..Len(v.xs) : v.xs[j].k \notin {"none", "num", "float"}

Offenders(c) == {upper(c.kw[j][1]) : j \in {i \in 1..Len(c.kw) : OffendingValue(c.kw[i][2])}}

\* C22: a select_range call on known keys of which two or more carry an
\* offending value fails with the not-numeric error, and the error names
\* every offending key.
C22_AllOffendersNamed ==
    [][(/\ call'.op = "select_range"
        /\ UnknownNames(call') = {}
        /\ Cardinality(Offenders(call')) >= 2)
       => /\ err' = NotNumeric
          /\ {errkeys'[j] : j \in 1..Len(errkeys')} = Offenders(call')]_vars

\* every column an alias call names is, in upper case, a column of the table
TargetsAreColumns(c) == \A j \in 1..Len(c.kw) : upper(c.kw[j][2].s) \in Columns

\* the alias map has every pair of the call, a later pair of the same alias
\* taking the place of an earlier one
Registered(c, al) ==
    \A j \in 1..Len(c.kw) :
        (\A i \in (j + 1)..Len(c.kw) : upper(c.kw[i][1]) # upper(c.kw[j][1]))
        => /\ upper(c.kw[j][1]) \in DOMAIN al
           /\ al[upper(c.kw[j][1])] = upper(c.kw[j][2].s)

\* C23: an alias call that names a column which is not a column of the table
\* (a name that is only an alias included) fails and leaves the alias map
\* as it was, every value of the alias map is a column of the table, and a
\* call that succeeds maps each of its aliases to its column, in place of
\* any earlier mapping.
C23_AliasTargetsAreColumns ==
    [][/\ (call'.op = "alias" /\ ~TargetsAreColumns(call'))
          => (err' # "ok" /\ _aliases' = _aliases)
       /\ (call'.op = "alias" /\ err' = "ok") => Registered(call', _aliases')
       /\ \A a \in DOMAIN _aliases' : _aliases'[a] \in Columns]_vars

\* the call with every key replaced by the column it stands for
Canonical(kw) == [j \in 1..Len(kw) |-> <<Resolve(kw[j][1]), kw[j][2]>>]

\* what a builder call does to the store, and how it ends
EffectOf(op, tag, kw) ==
    CASE op = "select"       -> do_select(tag, kw)
      [] op = "select_range" -> do_select_range(tag, kw)
      [] OTHER               -> do_select_within(tag, kw)

\* the key columns a bookkeeping row has a criterion in
CriteriaOf(row) == {c \in DEFKEYS : row.crit[c] # ""}

\* C24: a builder call has the effect of the same call with every key
\* replaced by the column it resolves to, whatever the letter case of the
\* key: it ends the same way and leaves the same table of rules and the
\* same stored results, and the rule it adds has its criteria under the
\* names of those columns.
C24_AliasIsItsColumn ==
    [][call'.op \in Builders
       => LET e == EffectOf(call'.op, call'.tag, Canonical(call'.kw))
          IN  /\ err' = e.err
              /\ _table' = e.table
              /\ _selection_rules' = e.rules
              /\ Len(_table') > Len(_table)
                 => CriteriaOf(_table'[Len(_table')])
                      = {Resolve(call'.kw[j][1]) : j \in 1..Len(call'.kw)}]_vars

\* the columns of a call, each once, in the order the call first names them
FirstNamed(kw) ==
    SelectSeq([j \in 1..Len(kw) |->
                  IF \E i \in 1..(j - 1) : Resolve(kw[i][1]) = Resolve(kw[j][1])
                  THEN "" ELSE Resolve(kw[j][1])],
              LAMBDA c : c # "")

\* the criteria a bookkeeping row records for a call, in that order
RecordedCriteria(row, kw) ==
    [j \in 1..Len(FirstNamed(kw)) |-> <<FirstNamed(kw)[j], row.crit[FirstNamed(kw)[j]]>>]

ActiveColumns == UNION {CriteriaOf(_table[j]) : j \in 1..Len(_table)}

\* C26: what show displays is ID, TAG and # SELECTED and exactly the key
\* columns in which a currently active rule has a criterion; a column only
\* removed rules used is not displayed.
C26_ShowDisplaysActiveColumns ==
    call.op = "show"
    => Printed(pprint_exclude_names) = {"ID", "TAG", "# SELECTED"} \cup ActiveColumns

\* the call of this step is a remove that names the rule by its id or its tag
RemovesRule(c, i) ==
    c.op = "remove" /\ (c.id = i \/ c.tag = RowOfId(_table, i).TAG)

\* C27: a stored rule stays as it was added until it is removed: a step
\* that is not a remove naming the rule leaves its bookkeeping row (id, tag,
\* criteria, selected count) and its stored result as they were, be it a
\* select, select_range, select_within, a remove of another rule, alias,
\* show or final.
C27_StoredRuleNeverChanged ==
    [][\A i \in IdsOf(_table) :
          ~RemovesRule(call', i)
          => /\ i \in IdsOf(_table')
             /\ RowOfId(_table', i) = RowOfId(_table, i)
             /\ i \in DictKeys(_selection_rules')
             /\ DictGet(_selection_rules', i) = DictGet(_selection_rules, i)]_vars

\* rule 1, the range on IFNUM that selects the third row, is as it was
\* added after rule 0 was removed by its id
C27_Witness ==
    /\ call.op = "remove"
    /\ call.id = 0
    /\ err = "ok"
    /\ Len(_table) = 1
    /\ _table[1].ID = 1
    /\ CriteriaOf(_table[1]) = {"IFNUM"}
    /\ _table[1].SELECTED = 1
    /\ RowSet(DictGet(_selection_rules, 1)) = {3}

\* C28: no operation (alias, select, select_range, select_within, remove,
\* show, final) adds, deletes, reorders or modifies a row of the metadata
\* table: after every step it has the same rows with the same index labels
\* in the same order.
C28_MetadataTableUntouched == [][index' = index]_vars

\* two rules were stored and final was read, and the metadata table is the
\* table the Selection was built on
C28_Witness ==
    /\ call.op = "final"
    /\ Len(_table) = 2
    /\ Len(final) < Len(index)
    /\ index = RangeFrame(DistinctRows)

\* C29: final and show leave the rule store as it was: the table of
\* rules, the stored results, the alias map and the next id are the same
\* before and after.
C29_FinalAndShowReadOnly ==
    [][call'.op \in {"final", "show"}
       => /\ _table' = _table
          /\ _selection_rules' = _selection_rules
          /\ _aliases' = _aliases
          /\ _next_id' = _next_id]_vars

\* show was called on a store of two rules and a registered alias, and set
\* the columns print leaves out; the two rules are still there
C29_Witness ==
    /\ call.op = "show"
    /\ Len(_table) = 2
    /\ Len(_selection_rules) = 2
    /\ "LON" \in DOMAIN _aliases
    /\ pprint_exclude_names # {}

\* the keys of a call that are the last the call gives for their column:
\* the criteria a row of the table of rules can hold, one for each column
LastNamed(kw) ==
    SelectSeq([j \in 1..Len(kw) |->
                  IF \E i \in (j + 1)..Len(kw) : Resolve(kw[i][1]) = Resolve(kw[j][1])
                  THEN <<>> ELSE kw[j]],
              LAMBDA e : e # <<>>)

\* C30: the criteria recorded for a rule describe the whole predicate
\* behind its result: when a builder call adds a rule, every key of the
\* call has its criterion in the new row, also when two keys resolve to the
\* same column, and the rows of the stored result are the rows that
\* satisfy the recorded criteria.
C30_CriteriaDescribeResult ==
    [][Added
       => LET row == _table'[Len(_table')]
              df  == DictGet(_selection_rules', row.ID)
          IN  /\ Len(call'.kw) = Cardinality(CriteriaOf(row))
              /\ RowSet(df) = Satisfying([call' EXCEPT !.kw = LastNamed(call'.kw)])]_vars

-----------------------------------------------------------------------------
(* C31..C36: generated tags, open bounds, numeric bounds, scans, consecutive *)

\* the value strings of a call on columns that are not coordinates, joined
\* in call order
RECURSIVE ValueStrings(_)
ValueStrings(kw) ==
    IF kw = <<>> THEN ""
    ELSE PyStr(IF Head(kw)[2].k = "tuple" THEN List(Head(kw)[2].xs) ELSE Head(kw)[2])
         \o ValueStrings(Tail(kw))

OpenRange(v) ==
    /\ v.k = "tuple"
    /\ Len(v.xs) = 2
    /\ \/ v.xs[1].k = "none" /\ IsNumber(v.xs[2])
       \/ IsNumber(v.xs[1]) /\ v.xs[2].k = "none"

\* a select_range call of open ranges on coordinate columns or their aliases
OpenCoordinateRange(c) ==
    /\ c.op = "select_range"
    /\ c.kw # <<>>
    /\ \A j \in 1..Len(c.kw) :
          Resolve(c.kw[j][1]) \in {"CRVAL2", "CRVAL3"} /\ OpenRange(c.kw[j][2])

\* C32: select_range with an open bound on a coordinate column or alias
\* ends without an error from the None bound: the rule it stores selects
\* exactly the rows with field <= hi, or field >= lo, and it stores one
\* unless no row qualifies or the rule is a duplicate.
C32_OpenBoundOnCoordinate ==
    [][OpenCoordinateRange(call')
       => /\ err' \in {"ok", NoData, DuplicateRule}
          /\ err' = NoData <=> Satisfying(call') = {}
          /\ err' = "ok"
             => /\ Added
                /\ RowSet(DictGet(_selection_rules', _table'[Len(_table')].ID))
                     = Satisfying(call')]_vars

\* what the sanitizer makes of a bound is a number: a number on any column,
\* and an angle string or an angle quantity on a coordinate column
SanitizesToNumber(k, a) ==
    \/ IsNumber(a)
    \/ /\ Resolve(k) \in {"CRVAL2", "CRVAL3"}
       /\ \/ a.k = "qty"
          \/ a.k = "str" /\ a.s \in AngleStrings

\* a select_range call on known keys whose values are all tuples or lists
RangeOfBounds(c) ==
    /\ c.op = "select_range"
    /\ UnknownNames(c) = {}
    /\ \A j \in 1..Len(c.kw) : IsSequence(c.kw[j][2])

\* C33: select_range applies the numeric requirement to the sanitized
\* bounds: the call fails with the not-numeric error exactly when a bound
\* that is not None is still no number after sanitization; an angle string
\* or an angle quantity on a coordinate column is accepted.
C33_NumericAfterSanitization ==
    [][RangeOfBounds(call')
       => (err' = NotNumeric
           <=> \E j \in 1..Len(call'.kw) : \E i \in 1..Len(call'.kw[j][2].xs) :
                  /\ call'.kw[j][2].xs[i].k # "none"
                  /\ ~SanitizesToNumber(call'.kw[j][1], call'.kw[j][2].xs[i]))]_vars

\* calibrate has not been called on the scan at place k
NotYetCalibrated(k) == scans[k]._status = Unset

\* calibrate has run to its end on the scan at place k
CalibrateCompleted(k) ==
    /\ scans[k]._calibrated.st = "set"
    /\ \A i \in DOMAIN scans[k]._calibrated.v : scans[k]._calibrated.v[i] = "calibrated"

\* the step is scans[k].timeaverage(weights)
TimeaverageOf(k) == \E w \in Weights : call' = ScanCall("PSScan.timeaverage", k, w)

\* C34: timeaverage on a PSScan on which calibrate has not run fails with
\* "You can't time average before calibration." and produces no averaged
\* spectrum; on a PSScan on which calibrate has run it succeeds
C34_CalibrateBeforeTimeaverage ==
    [][\A k \in DOMAIN scans :
          TimeaverageOf(k) =>
              /\ NotYetCalibrated(k) =>
                     /\ err' = NotCalibrated
                     /\ returned' = <<>>
                     /\ scans'[k]._timeaveraged = scans[k]._timeaveraged
              /\ CalibrateCompleted(k) =>
                     /\ err' = "ok"
                     /\ Len(returned') = 1]_vars

\* the step is a call of ScanBlock.timeaverage or ScanBlock.polaverage that returns
BlockAverageReturns ==
    /\ call'.op \in {"ScanBlock.timeaverage", "ScanBlock.polaverage"}
    /\ err' = "ok"

\* the list holds one averaged spectrum for each scan of the block, in block order
OnePerScan(list) ==
    /\ Len(list) = Len(scans)
    /\ \A k \in DOMAIN list : ~list[k].none /\ list[k].scan = k

\* C35: every call of ScanBlock.timeaverage, and of ScanBlock.polaverage,
\* returns a list of exactly one averaged spectrum per scan of the block, in
\* block order, however often the method was called before
C35_OneSpectrumPerScan == [][BlockAverageReturns => OnePerScan(returned')]_vars

\* the data and the stepsize of the call of consecutive
DataOf == [i \in DOMAIN call.kw[1][2].xs |-> call.kw[1][2].xs[i].n]
StepsizeOf == call.kw[2][2].n

\* the groups one after another
RECURSIVE Flatten(_)
Flatten(groups) == IF groups = <<>> THEN <<>> ELSE Head(groups) \o Flatten(Tail(groups))

\* the group that holds the element at place p of the data
RECURSIVE GroupOf(_, _)
GroupOf(groups, p) ==
    IF p <= Len(Head(groups)) THEN 1 ELSE 1 + GroupOf(Tail(groups), p - Len(Head(groups)))

\* the groups are the data in order, nothing lost and nothing twice
SplitsInOrder(groups, data) == Flatten(groups) = data

\* neighbours share a group exactly when the second is at most stepsize
\* beyond the first
GroupedByStep(groups, data, stepsize) ==
    \A i \in 1..(Len(data) - 1) :
        (GroupOf(groups, i) = GroupOf(groups, i + 1)) <=> (data[i + 1] - data[i] <= stepsize)

\* data is a run of consecutive integers
IsRun(data) == \A i \in 1..(Len(data) - 1) : data[i + 1] = data[i] + 1

\* C36: consecutive(data, stepsize) splits data into contiguous groups, in
\* order, nothing lost or duplicated; two neighbours are in the same group
\* exactly when their separation is at most stepsize; with stepsize 1 a run of
\* consecutive integers is one group
C36_GroupsBySeparation ==
    call.op = "consecutive" =>
        /\ SplitsInOrder(returned, DataOf)
        /\ GroupedByStep(returned, DataOf, StepsizeOf)
        /\ (StepsizeOf = 1 /\ IsRun(DataOf)) => Len(returned) = 1
====
